---- MODULE Spec2Model ----
(***************************************************************************)
(* A model of network_matrix.py: the two plateau trackers (EarlyStopping,  *)
(* LearningRate), the three update strategies as far as their call         *)
(* interface goes, and the epoch loop of Network.SGD with its mini-batch   *)
(* partition, evaluation and halving schedule.                             *)
(*                                                                         *)
(* Numeric array contents are not represented: weights, biases and         *)
(* velocities are version stamps that count how often the attribute was    *)
(* rebound to a new list, and the result of evaluate is any count between  *)
(* 0 and the size of the test list.                                        *)
(***************************************************************************)
EXTENDS Integers, Sequences, FiniteSets, TLC

VARIABLES
    learning_rate,    \* a LearningRate object (Network.learning_rate, or a stand-alone one)
    early_stopping,   \* an EarlyStopping object
    lr_log,           \* one record per should_halve call on the stand-alone tracker
    es_log,           \* one record per should_stop call
    reg,              \* Network.reg
    weights,          \* Network.weights   (version stamp)
    biases,           \* Network.biases    (version stamp)
    velocities,       \* Network.velocities (version stamp)
    pc,               \* position of the SGD call
    training_data,    \* SGD local: the list of training examples
    n,                \* SGD local: len(training_data)
    test_data,        \* SGD argument: None or a list
    epochs,           \* SGD argument
    mini_batch_size,  \* SGD argument
    eta,              \* SGD local: learning rate in units of 1 / EtaOne
    j,                \* SGD local: epoch index
    mini_batches,     \* SGD local: the epoch's list of mini-batches
    batch_idx,        \* position of the for-loop over mini_batches
    corrects,         \* SGD local: result of evaluate
    error,            \* the exception that ended the SGD call, or NoError
    update_calls,     \* the batches update_mini_batch was called with, this epoch
    sgd_calls         \* number of SGD calls made on the network

tracker_vars == <<learning_rate, early_stopping, lr_log, es_log>>

net_vars == <<reg, weights, biases, velocities>>

sgd_vars == <<pc, training_data, n, test_data, epochs, mini_batch_size, eta, j,
              mini_batches, batch_idx, corrects, error, update_calls, sgd_calls>>

vars == <<tracker_vars, net_vars, sgd_vars>>

-----------------------------------------------------------------------------
(* Bounds of the model *)

MaxPatience == 3

MaxAcc == 3

MaxTrackerCalls == 5

MaxTrain == 3

MaxBatch == 2

MaxTest == 1

MaxEpochs == 8

MaxRunEpochs == 2

MaxNetPatience == 1

MaxSGDCalls == 2

(* Program constants *)

HalvingBound == 7

UpdateCallArgs == 9

UpdateCallTargets == 3

InitialBest == 0

-----------------------------------------------------------------------------
(* EarlyStopping *)

EarlyStopping(patience) ==
    [patience |-> patience, best_accuracy |-> InitialBest, counter |-> 0,
     accuracies |-> <<>>]

should_stop_observe(self, current_accuracy) ==
    LET appended == [self EXCEPT !.accuracies = Append(@, current_accuracy)]
    IN  IF current_accuracy > self.best_accuracy
        THEN [appended EXCEPT !.best_accuracy = current_accuracy, !.counter = 0]
        ELSE [appended EXCEPT !.counter = @ + 1]

should_stop_resetting(self, current_accuracy) ==
    LET seen == should_stop_observe(self, current_accuracy)
    IN  IF seen.counter >= seen.patience
        THEN [self |-> [seen EXCEPT !.counter = 0], ret |-> TRUE]
        ELSE [self |-> seen, ret |-> FALSE]

should_stop(self, current_accuracy) ==
    LET seen == should_stop_observe(self, current_accuracy)
    IN  IF seen.counter >= seen.patience
        THEN [self |-> seen, ret |-> TRUE]
        ELSE [self |-> seen, ret |-> FALSE]

(* LearningRate *)

LearningRate(patience) ==
    [patience |-> patience, best_accuracy |-> InitialBest, counter |-> 0,
     num_halves |-> 0, accuracies |-> <<>>]

should_halve_observe_last(self, current_accuracy) ==
    LET appended == [self EXCEPT !.accuracies = Append(@, current_accuracy)]
    IN  IF current_accuracy /= self.best_accuracy
        THEN [appended EXCEPT !.best_accuracy = current_accuracy, !.counter = 0]
        ELSE [appended EXCEPT !.counter = @ + 1]

should_halve_observe(self, current_accuracy) ==
    LET appended == [self EXCEPT !.accuracies = Append(@, current_accuracy)]
    IN  IF current_accuracy > self.best_accuracy
        THEN [appended EXCEPT !.best_accuracy = current_accuracy, !.counter = 0]
        ELSE [appended EXCEPT !.counter = @ + 1]

should_halve_keeping_counter(self, current_accuracy) ==
    LET seen == should_halve_observe(self, current_accuracy)
    IN  IF seen.counter >= seen.patience
        THEN [self |-> [seen EXCEPT !.num_halves = @ + 1], ret |-> TRUE]
        ELSE [self |-> seen, ret |-> FALSE]

should_halve(self, current_accuracy) ==
    LET seen == should_halve_observe(self, current_accuracy)
    IN  IF seen.counter >= seen.patience
        THEN [self |-> [seen EXCEPT !.counter = 0, !.num_halves = @ + 1],
              ret |-> TRUE]
        ELSE [self |-> seen, ret |-> FALSE]

get_num_halves(self) == self.num_halves

-----------------------------------------------------------------------------
(* Values of the variables a specification does not use *)

NoError == "none"

None == [is_none |-> TRUE, size |-> 0]

List(size) == [is_none |-> FALSE, size |-> size]

IdleSGD ==
    /\ pc = "idle"
    /\ training_data = <<>>
    /\ n = 0
    /\ test_data = None
    /\ epochs = 0
    /\ mini_batch_size = 0
    /\ eta = 0
    /\ j = 0
    /\ mini_batches = <<>>
    /\ batch_idx = 0
    /\ corrects = 0
    /\ error = NoError
    /\ update_calls = <<>>
    /\ sgd_calls = 0

-----------------------------------------------------------------------------
(* A stand-alone LearningRate tracker fed arbitrary accuracy counts *)

InitLR ==
    /\ \E patience \in 1..MaxPatience : learning_rate = LearningRate(patience)
    /\ early_stopping = EarlyStopping(1)
    /\ lr_log = <<>>
    /\ es_log = <<>>
    /\ reg = "L2_regularization"
    /\ weights = 0 /\ biases = 0 /\ velocities = 0
    /\ IdleSGD

ShouldHalveCall ==
    /\ Len(lr_log) < MaxTrackerCalls
    /\ \E current_accuracy \in 0..MaxAcc :
         LET seen == should_halve_observe(learning_rate, current_accuracy)
             out  == should_halve(learning_rate, current_accuracy)
         IN  /\ learning_rate' = out.self
             /\ lr_log' = Append(lr_log,
                    [acc |-> current_accuracy,
                     ret |-> out.ret,
                     before |-> learning_rate,
                     seen_best |-> seen.best_accuracy,
                     seen_counter |-> seen.counter,
                     after |-> out.self])
    /\ UNCHANGED <<early_stopping, es_log, net_vars, sgd_vars>>

NextLR == ShouldHalveCall

SpecLR == InitLR /\ [][NextLR]_vars

(* A stand-alone EarlyStopping tracker fed arbitrary accuracy counts *)

InitES ==
    /\ \E patience \in 1..MaxPatience : early_stopping = EarlyStopping(patience)
    /\ learning_rate = LearningRate(1)
    /\ lr_log = <<>>
    /\ es_log = <<>>
    /\ reg = "L2_regularization"
    /\ weights = 0 /\ biases = 0 /\ velocities = 0
    /\ IdleSGD

ShouldStopCall ==
    /\ Len(es_log) < MaxTrackerCalls
    /\ \E current_accuracy \in 0..MaxAcc :
         LET out == should_stop(early_stopping, current_accuracy)
         IN  /\ early_stopping' = out.self
             /\ es_log' = Append(es_log,
                    [acc |-> current_accuracy,
                     ret |-> out.ret,
                     before |-> early_stopping,
                     after |-> out.self])
    /\ UNCHANGED <<learning_rate, lr_log, net_vars, sgd_vars>>

NextES == ShouldStopCall

SpecES == InitES /\ [][NextES]_vars

-----------------------------------------------------------------------------
(* Update strategies: the parameters update_step declares and the number of *)
(* values it returns, per strategy class                                    *)

Strategies == {"L2_regularization", "momentum", "L1_regularization"}

update_step_params(strategy) ==
    CASE strategy = "L2_regularization" -> 9
      [] strategy = "momentum"          -> 9
      [] strategy = "L1_regularization" -> 7

update_step_returns(strategy) ==
    CASE strategy = "L2_regularization" -> 3
      [] strategy = "momentum"          -> 3
      [] strategy = "L1_regularization" -> 2

\* The new (weights, biases, velocities) stamps a strategy returns: a list
\* built by a comprehension is a new object, a parameter handed back is not.
update_step(strategy, w, b, v) ==
    CASE strategy = "L2_regularization" -> <<w + 1, b + 1, v>>
      [] strategy = "momentum"          -> <<w + 1, b + 1, v + 1>>
      [] strategy = "L1_regularization" -> <<w + 1, b + 1>>

\* The call self.reg.update_step(eta, ..., mu) with its three assignment
\* targets raises TypeError unless the strategy takes the nine arguments
\* and returns three values.
update_step_callable(strategy) ==
    /\ update_step_params(strategy) = UpdateCallArgs
    /\ update_step_returns(strategy) = UpdateCallTargets

-----------------------------------------------------------------------------
(* Network.SGD *)

EtaOne == 2 ^ HalvingBound

Min(a, b) == IF a < b THEN a ELSE b

\* len(range(0, stop, step)) for step > 0
range_len(stop, step) == IF stop <= 0 THEN 0 ELSE (stop + step - 1) \div step

Shuffles(len) ==
    {p \in [1..len -> 1..len] : \A a, b \in 1..len : p[a] = p[b] => a = b}

make_mini_batches_full_only(data, len, size) ==
    [i \in 1..(len \div size) |-> SubSeq(data, (i - 1) * size + 1, i * size)]

\* [training_data[k : k + mini_batch_size] for k in range(0, n, mini_batch_size)]
make_mini_batches(data, len, size) ==
    [i \in 1..range_len(len, size) |->
        SubSeq(data, (i - 1) * size + 1, Min(i * size, Len(data)))]

Network(strategy, patience) ==
    /\ reg = strategy
    /\ weights = 0
    /\ biases = 0
    /\ velocities = 0
    /\ learning_rate = LearningRate(patience)

Init ==
    /\ \E strategy \in Strategies, patience \in 1..MaxNetPatience :
         Network(strategy, patience)
    /\ early_stopping = EarlyStopping(1)
    /\ lr_log = <<>>
    /\ es_log = <<>>
    /\ IdleSGD

EpochChoices == {0, 1, MaxEpochs}

TestChoices == {None} \cup {List(k) : k \in 0..MaxTest}

\* Entry of SGD up to the loop header: lines 187-194
SGDCall(call_limit, epoch_choices) ==
    /\ pc \in {"idle", "returned", "raised"}
    /\ sgd_calls < call_limit
    /\ \E len \in 0..MaxTrain, e \in epoch_choices, size \in 0..MaxBatch,
          rate \in {0, EtaOne}, test \in TestChoices :
         /\ training_data' = [i \in 1..len |-> i]
         /\ n' = len
         /\ test_data' = test
         /\ epochs' = e
         /\ mini_batch_size' = size
         /\ eta' = rate
         /\ pc' = IF e > 0 THEN "shuffle" ELSE "returned"
    /\ j' = 0
    /\ mini_batches' = <<>>
    /\ batch_idx' = 0
    /\ corrects' = 0
    /\ error' = NoError
    /\ update_calls' = <<>>
    /\ sgd_calls' = sgd_calls + 1
    /\ UNCHANGED <<tracker_vars, net_vars>>

SGD == SGDCall(MaxSGDCalls, EpochChoices)

\* Lines 195-199: shuffle and partition; range() with a step of 0 raises
Shuffle ==
    /\ pc = "shuffle"
    /\ \E p \in Shuffles(n) :
         training_data' = [i \in 1..n |-> training_data[p[i]]]
    /\ IF mini_batch_size = 0
       THEN /\ error' = "ValueError"
            /\ pc' = "raised"
            /\ UNCHANGED mini_batches
       ELSE /\ mini_batches' = make_mini_batches(training_data', n, mini_batch_size)
            /\ pc' = "update"
            /\ UNCHANGED error
    /\ batch_idx' = 0
    /\ update_calls' = <<>>
    /\ UNCHANGED <<tracker_vars, net_vars, n, test_data, epochs, mini_batch_size,
                   eta, j, corrects, sgd_calls>>

\* Lines 200-201 and 219-240: one iteration of the loop over mini_batches
update_mini_batch ==
    /\ pc = "update"
    /\ batch_idx < Len(mini_batches)
    /\ batch_idx' = batch_idx + 1
    /\ update_calls' = Append(update_calls, mini_batches[batch_idx + 1])
    /\ IF update_step_callable(reg)
       THEN LET new == update_step(reg, weights, biases, velocities)
            IN  /\ weights' = new[1]
                /\ biases' = new[2]
                /\ velocities' = new[3]
                /\ UNCHANGED <<pc, error>>
       ELSE /\ error' = "TypeError in update_step"
            /\ pc' = "raised"
            /\ UNCHANGED <<weights, biases, velocities>>
    /\ UNCHANGED <<tracker_vars, reg, training_data, n, test_data, epochs,
                   mini_batch_size, eta, j, mini_batches, corrects, sgd_calls>>

\* Lines 203 and 281-293: iterating over None raises
evaluate ==
    /\ pc = "update"
    /\ batch_idx = Len(mini_batches)
    /\ IF test_data.is_none
       THEN /\ error' = "TypeError in evaluate"
            /\ pc' = "raised"
            /\ UNCHANGED corrects
       ELSE /\ \E count \in 0..test_data.size : corrects' = count
            /\ pc' = "schedule"
            /\ UNCHANGED error
    /\ UNCHANGED <<tracker_vars, net_vars, training_data, n, test_data, epochs,
                   mini_batch_size, eta, j, mini_batches, batch_idx,
                   update_calls, sgd_calls>>

\* Lines 210-217 and the loop header: halve, stop at the bound, next epoch
Schedule ==
    /\ pc = "schedule"
    /\ LET out == should_halve(learning_rate, corrects)
       IN  /\ learning_rate' = out.self
           /\ eta' = IF out.ret THEN eta \div 2 ELSE eta
           /\ IF get_num_halves(out.self) >= HalvingBound
              THEN pc' = "returned" /\ j' = j
              ELSE /\ j' = j + 1
                   /\ pc' = IF j + 1 < epochs THEN "shuffle" ELSE "returned"
    /\ UNCHANGED <<early_stopping, lr_log, es_log, net_vars, training_data, n,
                   test_data, epochs, mini_batch_size, mini_batches, batch_idx,
                   corrects, error, update_calls, sgd_calls>>

Next ==
    \/ SGD
    \/ Shuffle
    \/ update_mini_batch
    \/ evaluate
    \/ Schedule

Spec == Init /\ [][Next]_vars

(* One SGD call of a few epochs on a newly constructed network *)

FirstSGD == SGDCall(1, 0..MaxRunEpochs)

NextRun ==
    \/ FirstSGD
    \/ Shuffle
    \/ update_mini_batch
    \/ evaluate
    \/ Schedule

SpecRun == Init /\ [][NextRun]_vars

-----------------------------------------------------------------------------
(* Properties *)

Range(s) == {s[i] : i \in DOMAIN s}

SeqMax(s) == CHOOSE m \in Range(s) : \A x \in Range(s) : x <= m

StrictlyIncreasing(s) == \A i \in 1..(Len(s) - 1) : s[i] < s[i + 1]

RECURSIVE Flatten(_)
Flatten(batches) ==
    IF batches = <<>> THEN <<>> ELSE Head(batches) \o Flatten(Tail(batches))

CeilDiv(a, b) == CHOOSE q \in 0..a : q * b >= a /\ (q - 1) * b < a

\* C1: a newly constructed LearningRate tracker fed a strictly increasing
\* sequence of accuracy counts (the first of which may be 0) never returns
\* True from should_halve, and its num_halves stays 0.
C1_IncreasingNeverHalves ==
    StrictlyIncreasing(learning_rate.accuracies) =>
        /\ learning_rate.num_halves = 0
        /\ \A i \in DOMAIN lr_log : ~lr_log[i].ret

\* The calls i .. i+p-1 of the log start with counter = 0 and none of them
\* brings an accuracy above best_accuracy.
PlateauAt(i) ==
    LET p == learning_rate.patience
    IN  /\ i + p - 1 <= Len(lr_log)
        /\ lr_log[i].before.counter = 0
        /\ \A k \in i..(i + p - 1) :
             lr_log[k].acc <= lr_log[k].before.best_accuracy

\* C2: from counter = 0, p = patience consecutive calls with accuracies not
\* above best_accuracy return False p-1 times and True the p-th time, raise
\* num_halves by exactly 1 and leave counter at 0.
C2_PatienceTriggersOneHalve ==
    \A i \in DOMAIN lr_log :
        PlateauAt(i) =>
            LET last == i + learning_rate.patience - 1
            IN  /\ \A k \in i..(last - 1) : ~lr_log[k].ret
                /\ lr_log[last].ret
                /\ lr_log[last].after.num_halves = lr_log[i].before.num_halves + 1
                /\ lr_log[last].after.counter = 0

C2_Witness ==
    /\ learning_rate.patience = MaxPatience
    /\ \E i \in DOMAIN lr_log : i > 1 /\ PlateauAt(i)

C3_EvaluateAbsentReturnsZero ==
    (test_data.is_none \/ test_data.size = 0) =>
        /\ error /= "TypeError in evaluate"
        /\ pc = "schedule" => corrects = 0

\* C4: SGD runs at most `epochs` epochs, and update_mini_batch is not called
\* in an epoch that starts with the tracker's num_halves at or above the
\* halving bound.
C4_NoUpdateAfterBound ==
    /\ j <= epochs
    /\ (pc \in {"update", "schedule"} /\ update_calls /= <<>>) =>
           get_num_halves(learning_rate) < HalvingBound

\* C5: whichever of the three strategies is the network's reg, the call made
\* by update_mini_batch succeeds: it never ends in an error.
C5_EveryStrategyCallable ==
    (reg \in Strategies /\ update_calls /= <<>>) =>
        error /= "TypeError in update_step"

\* C6: at the start of every SGD call the tracker is as newly constructed:
\* best_accuracy at its initial value, counter = 0, num_halves = 0.
C6_FreshTrackerPerRun ==
    (pc = "shuffle" /\ j = 0) =>
        /\ learning_rate.best_accuracy = InitialBest
        /\ learning_rate.counter = 0
        /\ learning_rate.num_halves = 0

\* C7: an SGD call with eta = 0 is rejected before training starts: it ends
\* raised, with no shuffle, partition, update or evaluate performed.
C7_ZeroEtaRejected ==
    (sgd_calls > 0 /\ eta = 0) =>
        /\ pc = "raised"
        /\ mini_batches = <<>>
        /\ update_calls = <<>>
        /\ weights = 0 /\ biases = 0 /\ velocities = 0

\* C9: for n >= 1 examples and mini_batch_size m >= 1 the epoch's
\* mini-batches are ceil(n/m) contiguous slices of the shuffled list, in
\* order, holding every example exactly once; all but the last have m
\* examples, the last has n - m*(ceil(n/m)-1), between 1 and m; and
\* update_mini_batch is called once per batch in slice order, all of them
\* before evaluate.
C9_MiniBatchesPartition ==
    (pc \in {"update", "schedule"} /\ n >= 1 /\ mini_batch_size >= 1) =>
        LET m  == mini_batch_size
            nb == CeilDiv(n, m)
        IN  /\ Len(mini_batches) = nb
            /\ \A i \in 1..(nb - 1) : Len(mini_batches[i]) = m
            /\ Len(mini_batches[nb]) = n - m * (nb - 1)
            /\ Len(mini_batches[nb]) \in 1..m
            /\ Flatten(mini_batches) = training_data
            /\ \A x \in 1..n :
                 Cardinality({i \in 1..n : Flatten(mini_batches)[i] = x}) = 1
            /\ update_calls = SubSeq(mini_batches, 1, batch_idx)
            /\ pc = "schedule" => update_calls = mini_batches

C9_Witness ==
    /\ pc = "schedule"
    /\ j = 1
    /\ n = 3
    /\ mini_batch_size = 2
    /\ training_data = <<3, 1, 2>>
    /\ update_calls = <<<<3, 1>>, <<2>>>>

\* C10 as stated: once should_stop has returned True, every later call
\* returns True, whatever the accuracies.
C10_StopIsTerminal ==
    \A i, k \in DOMAIN es_log : (i < k /\ es_log[i].ret) => es_log[k].ret

\* C10: when counter reaches patience should_stop returns True and leaves
\* counter as it is; later calls return True for as long as no accuracy
\* exceeds best_accuracy, and a call whose accuracy exceeds best_accuracy
\* sets counter to 0 and returns False.
C10_StopUntilImprovement ==
    \A i \in DOMAIN es_log :
        LET e == es_log[i]
        IN  /\ e.ret <=> e.after.counter >= e.after.patience
            /\ e.ret => e.after.counter = e.before.counter + 1
            /\ e.acc > e.before.best_accuracy => (~e.ret /\ e.after.counter = 0)
            /\ \A k \in DOMAIN es_log :
                 ( /\ i < k
                   /\ e.ret
                   /\ \A m \in (i + 1)..k :
                        es_log[m].acc <= es_log[m].before.best_accuracy )
                 => es_log[k].ret

C10_Witness ==
    /\ early_stopping.patience > 1
    /\ \E i, k \in DOMAIN es_log :
         /\ i + 1 < k
         /\ es_log[i].ret
         /\ es_log[k].ret
         /\ \A m \in (i + 1)..k : es_log[m].acc <= es_log[m].before.best_accuracy

====
